---- MODULE Spec2Model ----
(***************************************************************************)
(* Model of service/postgres/backup.go: the streaming postgres backup      *)
(* pipeline (pg_dump | gzip | S3 upload) guarded by the global pgMutex.     *)
(*                                                                         *)
(* Every caller of Backup is one Coordinator.  A run owns a dump process,   *)
(* the process's stdout pipe, the chain goroutine (lines 74-94), the copy   *)
(* goroutine (lines 83-87) and the upload call (line 90).                   *)
(*                                                                         *)
(* Bytes are integers.  Errors are sequences of strings (the pieces of the  *)
(* message), the nil error is the empty sequence.                           *)
(***************************************************************************)
EXTENDS Integers, Sequences, FiniteSets, TLC

\* ---------------------------------------------------------------- bounds
NumCallers == 2
MaxDump == 2

Callers == 1..NumCallers
DumpBytes == {1, 2}

\* ------------------------------------------------------------ error values
Nil == <<>>
NoResult == <<"<not returned>">>
ErrPipe == <<"pipe: too many open files">>
ErrExec == <<"exec: pg_dump: executable file not found">>
ErrExitStatus == <<"exit status 1">>
ErrKilled == <<"signal: killed">>
ErrUpload == <<"s3: upload failed">>
ErrCtxCanceled == <<"context canceled">>
ErrCtxDeadline == <<"context deadline exceeded">>

\* ctx.Err() of a context in state s
CtxErr(s) == IF s = "DeadlineExceeded" THEN ErrCtxDeadline
             ELSE IF s = "Canceled" THEN ErrCtxCanceled ELSE Nil

\* fmt.Errorf("postgres dump: timeout: %v", ctx.Err())
ErrorfTimeout(e) == <<"postgres dump: timeout: ">> \o e

\* fmt.Errorf("postgres dump: %v", err)
ErrorfDump(e) == <<"postgres dump: ">> \o e

\* the class of a returned error, read off its message
Classify(e) ==
    IF e = Nil THEN "nil"
    ELSE IF Head(e) = "postgres dump: timeout: " THEN "DeadlineExceeded"
    ELSE IF Head(e) = "postgres dump: " THEN "DumpFailed"
    ELSE "other"

\* --------------------------------------------------------- stderr and trim
StderrTexts == { <<>>, <<"c", "r">>, <<"c", "r", "\n">>,
                 <<"c", "\n", "r", "\r", "\n">> }

CutSet == {"\r", "\n"}

\* a trim that knows the line feed only
RECURSIVE TrimRightNL(_)
TrimRightNL(s) ==
    IF s = <<>> THEN s
    ELSE IF s[Len(s)] = "\n" THEN TrimRightNL(SubSeq(s, 1, Len(s) - 1))
    ELSE s

\* strings.TrimRight(s, "\r\n")
RECURSIVE TrimRight(_)
TrimRight(s) ==
    IF s = <<>> THEN s
    ELSE IF s[Len(s)] \in CutSet THEN TrimRight(SubSeq(s, 1, Len(s) - 1))
    ELSE s

\* e contains t as a contiguous piece
Contains(e, t) ==
    \E i \in 0..Len(e) : i + Len(t) <= Len(e) /\ SubSeq(e, i + 1, i + Len(t)) = t

\* ------------------------------------------------------------------ gzip
GzHeader == 31
GzTrailerBase == 100
GzShift == 10

RECURSIVE Deflate(_)
Deflate(s) == IF s = <<>> THEN <<>> ELSE <<Head(s) + GzShift>> \o Deflate(Tail(s))

\* the complete gzip stream of s: header, deflated bytes, trailer (length)
Compress(s) == <<GzHeader>> \o Deflate(s) \o <<GzTrailerBase + Len(s)>>

\* ------------------------------------------------------------- the request
\* binding.CredentialString / binding.Label / binding.Name of caller c
Binding(c) ==
    [ host |-> "host" \o ToString(c), port |-> "5432",
      database |-> IF c % 2 = 1 THEN "db" ELSE "",
      username |-> "user" \o ToString(c), password |-> "pw" \o ToString(c),
      label |-> "postgres", name |-> "inst" \o ToString(c) ]

Filename(c) == "backup" \o ToString(c) \o ".gz"

EmptyEnv == [PGUSER |-> "", PGPASSWORD |-> "", PGHOST |-> "", PGPORT |-> ""]

\* lines 34-37
Setenv(c) == [PGUSER |-> Binding(c).username, PGPASSWORD |-> Binding(c).password,
              PGHOST |-> Binding(c).host, PGPORT |-> Binding(c).port]

\* the whole-instance command whatever the binding says
DumpCommandAlwaysAll(c) == <<"pg_dumpall", "-c", "--no-password">>

\* lines 40-49
DumpCommand(c) ==
    (IF Binding(c).database # ""
        THEN <<"pg_dump", Binding(c).database, "-C">>
        ELSE <<"pg_dumpall">>) \o <<"-c", "--no-password">>

\* ------------------------------------------------------------------ state
VARIABLES
    mutex,          \* pgMutex: the caller holding it, 0 when free
    env,            \* the process-wide environment (PG* variables)
    pc,             \* position of each Backup call
    defers,         \* deferred calls registered by each Backup call (top first)
    ctxState,       \* the caller's ctx: "live", "DeadlineExceeded", "Canceled"
    command,        \* command built at lines 40-49
    outPipe,        \* parent's read end of the stdout pipe: "none","open","closed"
    procState,      \* dump process: "none","running","exitOK","exitFail"
    procEnv,        \* environment inherited by the dump process at Start
    written,        \* bytes the dump process wrote to its stdout
    osPipe,         \* bytes in the stdout pipe not read yet
    errBuf,         \* captured standard error
    waitErr,        \* error of cmd.Wait (line 96, shadows err)
    ctxAtExit,      \* ctx state at the moment the process exited
    errVar,         \* the outer variable err (line 55), assigned at line 90
    wg,             \* uploadWait counter
    chainWaited,    \* uploadWait.Wait() has returned in this run
    uploadCtx,      \* "none", "live", "canceled"
    chainPc,        \* chain goroutine: "none","start","upload","deferDone","done"
    copyPc,         \* copy goroutine: "none","copying","closing","gwClosed","done"
    copied,         \* dump bytes the copy goroutine handed to the encoder
    gzStarted,      \* the encoder has written its header
    ioPending,      \* bytes of a pw.Write not consumed by the reader yet
    pwClosed,       \* write end of the io.Pipe closed
    uploaded,       \* bytes the upload call has read from pr
    uploadArgs,     \* arguments of the upload call, <<>> before the call
    uploadRet,      \* "none", or the way the upload call returned
    logged,         \* lines written by log.Errorln (line 102)
    result          \* value returned by Backup, NoResult before the return

coordVars == <<mutex, env, pc, defers, command, chainWaited, logged, result>>
ctxVars == <<ctxState>>
procVars == <<procState, procEnv, written, osPipe, errBuf, waitErr, ctxAtExit>>
chainVars == <<errVar, wg, chainPc, uploadArgs, uploadRet>>
copyVars == <<copyPc, copied, gzStarted, ioPending, pwClosed, uploaded>>
vars == <<coordVars, ctxVars, procVars, chainVars, copyVars, outPipe, uploadCtx>>

Init ==
    /\ mutex = 0
    /\ env = EmptyEnv
    /\ pc = [c \in Callers |-> "idle"]
    /\ defers = [c \in Callers |-> <<>>]
    /\ ctxState = [c \in Callers |-> "live"]
    /\ command = [c \in Callers |-> <<>>]
    /\ outPipe = [c \in Callers |-> "none"]
    /\ procState = [c \in Callers |-> "none"]
    /\ procEnv = [c \in Callers |-> EmptyEnv]
    /\ written = [c \in Callers |-> <<>>]
    /\ osPipe = [c \in Callers |-> <<>>]
    /\ errBuf = [c \in Callers |-> <<>>]
    /\ waitErr = [c \in Callers |-> Nil]
    /\ ctxAtExit = [c \in Callers |-> "live"]
    /\ errVar = [c \in Callers |-> Nil]
    /\ wg = [c \in Callers |-> 0]
    /\ chainWaited = [c \in Callers |-> FALSE]
    /\ uploadCtx = [c \in Callers |-> "none"]
    /\ chainPc = [c \in Callers |-> "none"]
    /\ copyPc = [c \in Callers |-> "none"]
    /\ copied = [c \in Callers |-> <<>>]
    /\ gzStarted = [c \in Callers |-> FALSE]
    /\ ioPending = [c \in Callers |-> <<>>]
    /\ pwClosed = [c \in Callers |-> FALSE]
    /\ uploaded = [c \in Callers |-> <<>>]
    /\ uploadArgs = [c \in Callers |-> <<>>]
    /\ uploadRet = [c \in Callers |-> "none"]
    /\ logged = [c \in Callers |-> <<>>]
    /\ result = [c \in Callers |-> NoResult]

\* ------------------------------------------------------- the Coordinator
\* a Lock that does not look at the holder
CanLockAlways(m) == TRUE

\* sync.Mutex: Lock succeeds only on a free mutex
CanLock(m) == m = 0

\* the return statement: the result is fixed, then the deferred calls run
ReturnWith(c, e) ==
    /\ result' = [result EXCEPT ![c] = e]
    /\ pc' = [pc EXCEPT ![c] = IF defers[c] = <<>> THEN "done" ELSE "returning"]

\* a deferred call that was never registered
DeferUnlockDropped(d) == d
DeferCancelDropped(d) == d

\* deferred calls registered by lines 26, 60 and 73 (pushed on the stack)
DeferUnlock(d) == <<"pgMutex.Unlock">> \o d
DeferClose(d) == <<"outPipe.Close">> \o d
DeferCancel(d) == <<"uploadCancel">> \o d

\* the start error wrapped like a dump error
StartErrorWrapped(e) == ErrorfDump(e)

\* line 68: return err
StartError(e) == e

\* lines 25-26
Lock(c) ==
    /\ pc[c] = "idle"
    /\ CanLock(mutex)
    /\ mutex' = c
    /\ defers' = [defers EXCEPT ![c] = DeferUnlock(@)]
    /\ pc' = [pc EXCEPT ![c] = "locked"]
    /\ UNCHANGED <<env, command, chainWaited, logged, result, ctxVars, procVars,
                   chainVars, copyVars, outPipe, uploadCtx>>

\* lines 28-52: credentials, os.Setenv, the dump command
Prepare(c) ==
    /\ pc[c] = "locked"
    /\ env' = Setenv(c)
    /\ command' = [command EXCEPT ![c] = DumpCommand(c)]
    /\ pc' = [pc EXCEPT ![c] = "pipe"]
    /\ UNCHANGED <<mutex, defers, chainWaited, logged, result, ctxVars, procVars,
                   chainVars, copyVars, outPipe, uploadCtx>>

\* lines 55-64: cmd.StdoutPipe() fails, Backup returns the error
StdoutPipeFail(c) ==
    /\ pc[c] = "pipe"
    /\ errVar' = [errVar EXCEPT ![c] = ErrPipe]
    /\ ReturnWith(c, ErrPipe)
    /\ UNCHANGED <<mutex, env, defers, command, chainWaited, logged, ctxVars, procVars,
                   wg, chainPc, uploadArgs, uploadRet, copyVars, outPipe, uploadCtx>>

\* lines 55-64: cmd.StdoutPipe() succeeds, outPipe.Close is deferred
StdoutPipeOk(c) ==
    /\ pc[c] = "pipe"
    /\ errVar' = [errVar EXCEPT ![c] = Nil]
    /\ outPipe' = [outPipe EXCEPT ![c] = "open"]
    /\ defers' = [defers EXCEPT ![c] = DeferClose(@)]
    /\ pc' = [pc EXCEPT ![c] = "start"]
    /\ UNCHANGED <<mutex, env, command, chainWaited, logged, result, ctxVars, procVars,
                   wg, chainPc, uploadArgs, uploadRet, copyVars, uploadCtx>>

\* lines 66-69: cmd.Start() fails (the binary cannot be run, or ctx is already
\* done); Start closes the pipe ends itself, Backup returns the error
StartFail(c, e) ==
    /\ pc[c] = "start"
    /\ IF ctxState[c] # "live" THEN e = CtxErr(ctxState[c]) ELSE e = ErrExec
    /\ outPipe' = [outPipe EXCEPT ![c] = "closed"]
    /\ ReturnWith(c, StartError(e))
    /\ UNCHANGED <<mutex, env, defers, command, chainWaited, logged, ctxVars, procVars,
                   chainVars, copyVars, uploadCtx>>

\* lines 66-69: cmd.Start() succeeds, the child inherits the environment
StartOk(c) ==
    /\ pc[c] = "start"
    /\ ctxState[c] = "live"
    /\ procState' = [procState EXCEPT ![c] = "running"]
    /\ procEnv' = [procEnv EXCEPT ![c] = env]
    /\ pc' = [pc EXCEPT ![c] = "launch"]
    /\ UNCHANGED <<mutex, env, defers, command, chainWaited, logged, result, ctxVars,
                   written, osPipe, errBuf, waitErr, ctxAtExit,
                   chainVars, copyVars, outPipe, uploadCtx>>

\* lines 71-94: uploadWait, uploadCtx, defer uploadCancel, go func()
LaunchChain(c) ==
    /\ pc[c] = "launch"
    /\ uploadCtx' = [uploadCtx EXCEPT ![c] = "live"]
    /\ defers' = [defers EXCEPT ![c] = DeferCancel(@)]
    /\ chainPc' = [chainPc EXCEPT ![c] = "start"]
    /\ pc' = [pc EXCEPT ![c] = "wait"]
    /\ UNCHANGED <<mutex, env, command, chainWaited, logged, result, ctxVars, procVars,
                   errVar, wg, uploadArgs, uploadRet, copyVars, outPipe>>

\* where line 96 goes on the result of cmd.Wait()
AfterCmdWait(e) == IF e # Nil THEN "inspect" ELSE "chainwait"

\* a Wait that does not block
WaitReturnsAtOnce(s) == TRUE

\* cmd.Wait() blocks until the process has exited
WaitReturns(s) == s \in {"exitOK", "exitFail"}

\* line 96: cmd.Wait() returns once the process has exited; it closes the
\* parent's end of the stdout pipe
CmdWait(c) ==
    /\ pc[c] = "wait"
    /\ WaitReturns(procState[c])
    /\ outPipe' = [outPipe EXCEPT ![c] = "closed"]
    /\ pc' = [pc EXCEPT ![c] = AfterCmdWait(waitErr[c])]
    /\ UNCHANGED <<mutex, env, defers, command, chainWaited, logged, result, ctxVars,
                   procVars, chainVars, copyVars, uploadCtx>>

\* a timeout test that never matches, and one that matches any done context
IsTimeoutNever(s) == FALSE
IsTimeoutAnyDone(s) == s # "live"

\* line 98: ctx.Err() == context.DeadlineExceeded
IsTimeout(s) == s = "DeadlineExceeded"

\* the outer err returned in place of the error of cmd.Wait
DumpErrorPrefersChain(c) == IF errVar[c] # Nil THEN errVar[c] ELSE ErrorfDump(waitErr[c])

\* line 103: the error returned for a failed dump
DumpError(c) == ErrorfDump(waitErr[c])

\* line 102: the stderr text written to the log
LoggedStderr(s) == TrimRight(s)

\* lines 97-103: the process failed
Inspect(c) ==
    /\ pc[c] = "inspect"
    /\ IF IsTimeout(ctxState[c])
          THEN /\ ReturnWith(c, ErrorfTimeout(CtxErr(ctxState[c])))
               /\ UNCHANGED logged
          ELSE /\ logged' = [logged EXCEPT ![c] = Append(@, LoggedStderr(errBuf[c]))]
               /\ ReturnWith(c, DumpError(c))
    /\ UNCHANGED <<mutex, env, defers, command, chainWaited, ctxVars, procVars,
                   chainVars, copyVars, outPipe, uploadCtx>>

\* uploadWait.Wait() returns when the counter is zero
WaitGroupDone(n) == n = 0

\* line 106
UploadWaitWait(c) ==
    /\ pc[c] = "chainwait"
    /\ WaitGroupDone(wg[c])
    /\ chainWaited' = [chainWaited EXCEPT ![c] = TRUE]
    /\ pc' = [pc EXCEPT ![c] = "return"]
    /\ UNCHANGED <<mutex, env, defers, command, logged, result, ctxVars, procVars,
                   chainVars, copyVars, outPipe, uploadCtx>>

\* line 107: return err
ReturnErr(c) ==
    /\ pc[c] = "return"
    /\ ReturnWith(c, errVar[c])
    /\ UNCHANGED <<mutex, env, defers, command, chainWaited, logged, ctxVars, procVars,
                   chainVars, copyVars, outPipe, uploadCtx>>

\* what is left to run after the top deferred call
AfterDefer(c) == [pc EXCEPT ![c] = IF Len(defers[c]) = 1 THEN "done" ELSE "returning"]

\* line 73 at return: uploadCancel()
RunUploadCancel(c) ==
    /\ pc[c] = "returning"
    /\ defers[c] # <<>> /\ Head(defers[c]) = "uploadCancel"
    /\ uploadCtx' = [uploadCtx EXCEPT ![c] = "canceled"]
    /\ defers' = [defers EXCEPT ![c] = Tail(@)]
    /\ pc' = AfterDefer(c)
    /\ UNCHANGED <<mutex, env, command, chainWaited, logged, result, ctxVars, procVars,
                   chainVars, copyVars, outPipe>>

\* line 60 at return: outPipe.Close()
RunOutPipeClose(c) ==
    /\ pc[c] = "returning"
    /\ defers[c] # <<>> /\ Head(defers[c]) = "outPipe.Close"
    /\ outPipe' = [outPipe EXCEPT ![c] = "closed"]
    /\ defers' = [defers EXCEPT ![c] = Tail(@)]
    /\ pc' = AfterDefer(c)
    /\ UNCHANGED <<mutex, env, command, chainWaited, logged, result, ctxVars, procVars,
                   chainVars, copyVars, uploadCtx>>

\* line 26 at return: pgMutex.Unlock()
RunUnlock(c) ==
    /\ pc[c] = "returning"
    /\ defers[c] # <<>> /\ Head(defers[c]) = "pgMutex.Unlock"
    /\ mutex' = 0
    /\ defers' = [defers EXCEPT ![c] = Tail(@)]
    /\ pc' = AfterDefer(c)
    /\ UNCHANGED <<env, command, chainWaited, logged, result, ctxVars, procVars,
                   chainVars, copyVars, outPipe, uploadCtx>>

\* ------------------------------------------------------- the caller's ctx
\* Backup reads ctx at line 66 (Start) at the earliest and never after it has
\* returned: an expiry while the call still waits for the lock is the expiry
\* right after Lock.
\* the deadline of the caller's context passes
DeadlineExpires(c) ==
    /\ ctxState[c] = "live"
    /\ pc[c] \notin {"idle", "done"}
    /\ ctxState' = [ctxState EXCEPT ![c] = "DeadlineExceeded"]
    /\ UNCHANGED <<coordVars, procVars, chainVars, copyVars, outPipe, uploadCtx>>

\* the caller cancels its context before the deadline
CallerCancels(c) ==
    /\ ctxState[c] = "live"
    /\ pc[c] \notin {"idle", "done"}
    /\ ctxState' = [ctxState EXCEPT ![c] = "Canceled"]
    /\ UNCHANGED <<coordVars, procVars, chainVars, copyVars, outPipe, uploadCtx>>

\* ------------------------------------------------------- the dump process
\* the process writes one more byte to its standard output
ProcWrite(c, b) ==
    /\ procState[c] = "running"
    /\ Len(written[c]) < MaxDump
    /\ written' = [written EXCEPT ![c] = Append(@, b)]
    /\ osPipe' = [osPipe EXCEPT ![c] = Append(@, b)]
    /\ UNCHANGED <<coordVars, ctxVars, procState, procEnv, errBuf, waitErr, ctxAtExit,
                   chainVars, copyVars, outPipe, uploadCtx>>

\* the process exits with status 0
ProcExitOk(c) ==
    /\ procState[c] = "running"
    /\ procState' = [procState EXCEPT ![c] = "exitOK"]
    /\ waitErr' = [waitErr EXCEPT ![c] = Nil]
    /\ ctxAtExit' = [ctxAtExit EXCEPT ![c] = ctxState[c]]
    /\ UNCHANGED <<coordVars, ctxVars, procEnv, written, osPipe, errBuf,
                   chainVars, copyVars, outPipe, uploadCtx>>

\* the process exits on its own with a failure, t is what it wrote to stderr
ProcExitFail(c, t) ==
    /\ procState[c] = "running"
    /\ procState' = [procState EXCEPT ![c] = "exitFail"]
    /\ waitErr' = [waitErr EXCEPT ![c] = ErrExitStatus]
    /\ errBuf' = [errBuf EXCEPT ![c] = t]
    /\ ctxAtExit' = [ctxAtExit EXCEPT ![c] = ctxState[c]]
    /\ UNCHANGED <<coordVars, ctxVars, procEnv, written, osPipe,
                   chainVars, copyVars, outPipe, uploadCtx>>

\* line 52, exec.CommandContext: once ctx is done the process is killed;
\* t is what it had written to stderr
Kill(c, t) ==
    /\ procState[c] = "running"
    /\ ctxState[c] # "live"
    /\ procState' = [procState EXCEPT ![c] = "exitFail"]
    /\ waitErr' = [waitErr EXCEPT ![c] = ErrKilled]
    /\ errBuf' = [errBuf EXCEPT ![c] = t]
    /\ ctxAtExit' = [ctxAtExit EXCEPT ![c] = ctxState[c]]
    /\ UNCHANGED <<coordVars, ctxVars, procEnv, written, osPipe,
                   chainVars, copyVars, outPipe, uploadCtx>>

\* ----------------------------------------------------- the chain goroutine
\* the path without the instance name
ObjectPathNoName(c) == Binding(c).label \o "/" \o Filename(c)

\* line 89
ObjectPath(c) == Binding(c).label \o "/" \o Binding(c).name \o "/" \o Filename(c)

\* line 76: uploadWait.Add(1)
WaitGroupAdd(n) == n + 1

\* lines 75-90: the goroutine registers itself, builds the pipe and the
\* encoder, starts the copy goroutine and calls the upload
ChainStart(c) ==
    /\ chainPc[c] = "start"
    /\ wg' = [wg EXCEPT ![c] = WaitGroupAdd(@)]
    /\ copyPc' = [copyPc EXCEPT ![c] = "copying"]
    /\ uploadArgs' = [uploadArgs EXCEPT ![c] = <<ObjectPath(c), -1>>]
    /\ chainPc' = [chainPc EXCEPT ![c] = "upload"]
    /\ UNCHANGED <<coordVars, ctxVars, procVars, errVar, uploadRet,
                   copied, gzStarted, ioPending, pwClosed, uploaded, outPipe, uploadCtx>>

\* the upload call reads what the copy goroutine wrote to the pipe
UploadRead(c) ==
    /\ chainPc[c] = "upload"
    /\ ioPending[c] # <<>>
    /\ uploaded' = [uploaded EXCEPT ![c] = @ \o ioPending[c]]
    /\ ioPending' = [ioPending EXCEPT ![c] = <<>>]
    /\ UNCHANGED <<coordVars, ctxVars, procVars, chainVars,
                   copyPc, copied, gzStarted, pwClosed, outPipe, uploadCtx>>

\* line 90: the upload call returns e, which is assigned to the outer err
UploadReturns(c, how, e) ==
    /\ chainPc[c] = "upload"
    /\ errVar' = [errVar EXCEPT ![c] = e]
    /\ uploadRet' = [uploadRet EXCEPT ![c] = how]
    /\ chainPc' = [chainPc EXCEPT ![c] = "deferDone"]
    /\ UNCHANGED <<coordVars, ctxVars, procVars, wg, uploadArgs, copyVars, outPipe, uploadCtx>>

\* the upload read the stream up to end-of-stream and stored the object
UploadEOF(c) ==
    /\ ioPending[c] = <<>>
    /\ pwClosed[c]
    /\ UploadReturns(c, "eof", Nil)

\* the storage client fails
UploadFails(c) ==
    /\ uploadRet[c] = "none"
    /\ UploadReturns(c, "failed", ErrUpload)

\* the upload call sees its context canceled
UploadCanceled(c) ==
    /\ uploadCtx[c] = "canceled"
    /\ UploadReturns(c, "canceled", ErrCtxCanceled)

\* line 75 at the end of the goroutine: uploadWait.Done()
ChainDone(c) ==
    /\ chainPc[c] = "deferDone"
    /\ wg' = [wg EXCEPT ![c] = @ - 1]
    /\ chainPc' = [chainPc EXCEPT ![c] = "done"]
    /\ UNCHANGED <<coordVars, ctxVars, procVars, errVar, uploadArgs, uploadRet,
                   copyVars, outPipe, uploadCtx>>

\* ------------------------------------------------------ the copy goroutine
\* what the encoder emits for chunk s: its header first, once
Encode(started, s) == (IF started THEN <<>> ELSE <<GzHeader>>) \o s

\* a Read on the stdout pipe delivers the bytes in the pipe while the
\* parent's end is open
CanRead(c) == outPipe[c] = "open" /\ osPipe[c] # <<>>

\* line 86, io.Copy: read what is in the stdout pipe, write it to gw; the
\* Write to the synchronous io.Pipe lasts until the reader took the bytes
CopyRead(c) ==
    /\ copyPc[c] = "copying"
    /\ ioPending[c] = <<>>
    /\ CanRead(c)
    /\ copied' = [copied EXCEPT ![c] = @ \o osPipe[c]]
    /\ ioPending' = [ioPending EXCEPT ![c] = Encode(gzStarted[c], Deflate(osPipe[c]))]
    /\ gzStarted' = [gzStarted EXCEPT ![c] = TRUE]
    /\ osPipe' = [osPipe EXCEPT ![c] = <<>>]
    /\ UNCHANGED <<coordVars, ctxVars, procState, procEnv, written, errBuf, waitErr,
                   ctxAtExit, chainVars, copyPc, pwClosed, uploaded, outPipe, uploadCtx>>

\* line 86, io.Copy: the pipe is drained and the process has exited
CopyEOF(c) ==
    /\ copyPc[c] = "copying"
    /\ ioPending[c] = <<>>
    /\ outPipe[c] = "open"
    /\ osPipe[c] = <<>>
    /\ procState[c] \in {"exitOK", "exitFail"}
    /\ copyPc' = [copyPc EXCEPT ![c] = "closing"]
    /\ UNCHANGED <<coordVars, ctxVars, procVars, chainVars,
                   copied, gzStarted, ioPending, pwClosed, uploaded, outPipe, uploadCtx>>

\* line 86, io.Copy: the Read fails because the parent's end was closed
\* (by cmd.Wait or by the deferred outPipe.Close); the error is dropped
CopyReadErr(c) ==
    /\ copyPc[c] = "copying"
    /\ ioPending[c] = <<>>
    /\ outPipe[c] = "closed"
    /\ copyPc' = [copyPc EXCEPT ![c] = "closing"]
    /\ UNCHANGED <<coordVars, ctxVars, procVars, chainVars,
                   copied, gzStarted, ioPending, pwClosed, uploaded, outPipe, uploadCtx>>

\* line 85 at the end of the copy goroutine: gw.Close() writes the trailer
GwClose(c) ==
    /\ copyPc[c] = "closing"
    /\ ioPending[c] = <<>>
    /\ ioPending' = [ioPending EXCEPT ![c] =
                        Encode(gzStarted[c], <<GzTrailerBase + Len(copied[c])>>)]
    /\ gzStarted' = [gzStarted EXCEPT ![c] = TRUE]
    /\ copyPc' = [copyPc EXCEPT ![c] = "gwClosed"]
    /\ UNCHANGED <<coordVars, ctxVars, procVars, chainVars,
                   copied, pwClosed, uploaded, outPipe, uploadCtx>>

\* the two deferred calls of the copy goroutine in the other order
PwCloseRunsFirst(p) == p = "closing"

\* lines 84-85: pw.Close() is deferred first, so it runs after gw.Close()
PwCloseRuns(p) == p = "gwClosed"

\* line 84 at the end of the copy goroutine: pw.Close()
PwClose(c) ==
    /\ PwCloseRuns(copyPc[c])
    /\ ioPending[c] = <<>>
    /\ pwClosed' = [pwClosed EXCEPT ![c] = TRUE]
    /\ copyPc' = [copyPc EXCEPT ![c] = "done"]
    /\ UNCHANGED <<coordVars, ctxVars, procVars, chainVars,
                   copied, gzStarted, ioPending, uploaded, outPipe, uploadCtx>>

\* ---------------------------------------------------------- specification
\* a step of the call of c after Lock, of its context or of its dump process
RunStep(c) ==
    \/ Prepare(c)
    \/ StdoutPipeFail(c)
    \/ StdoutPipeOk(c)
    \/ \E e \in {ErrExec, ErrCtxCanceled, ErrCtxDeadline} : StartFail(c, e)
    \/ StartOk(c)
    \/ LaunchChain(c)
    \/ CmdWait(c)
    \/ Inspect(c)
    \/ UploadWaitWait(c)
    \/ ReturnErr(c)
    \/ RunUploadCancel(c)
    \/ RunOutPipeClose(c)
    \/ RunUnlock(c)
    \/ DeadlineExpires(c)
    \/ CallerCancels(c)
    \/ ProcExitOk(c)
    \/ \E t \in StderrTexts : ProcExitFail(c, t)
    \/ \E t \in StderrTexts : Kill(c, t)

\* a step of the goroutines of the run of c, or a write of its dump process
ChainStep(c) ==
    \/ \E b \in DumpBytes : ProcWrite(c, b)
    \/ ChainStart(c)
    \/ UploadRead(c)
    \/ UploadEOF(c)
    \/ UploadFails(c)
    \/ UploadCanceled(c)
    \/ ChainDone(c)
    \/ CopyRead(c)
    \/ CopyEOF(c)
    \/ CopyReadErr(c)
    \/ GwClose(c)
    \/ PwClose(c)

\* c calls Backup while no other caller has called it yet
LockAlone(c) ==
    /\ \A d \in Callers \ {c} : pc[d] = "idle"
    /\ Lock(c)

\* One run followed in full: the call of any one caller with its process and
\* its goroutines, the other callers not having called yet.
Next == \E c \in Callers : LockAlone(c) \/ RunStep(c) \/ ChainStep(c)

Spec == Init /\ [][Next]_vars

\* All callers calling concurrently.  The goroutines of a run touch neither
\* pgMutex nor the environment nor the position of a call; here they are
\* not scheduled, so that the calls of all callers can be followed together.
NextCalls == \E c \in Callers : Lock(c) \/ RunStep(c)

SpecCalls == Init /\ [][NextCalls]_vars

\* the steps of the call of c itself
CoordStep(c) ==
    \/ LockAlone(c) \/ Prepare(c) \/ StdoutPipeFail(c) \/ StdoutPipeOk(c)
    \/ (\E e \in {ErrExec, ErrCtxCanceled, ErrCtxDeadline} : StartFail(c, e))
    \/ StartOk(c) \/ LaunchChain(c) \/ CmdWait(c) \/ Inspect(c)
    \/ UploadWaitWait(c) \/ ReturnErr(c)
    \/ RunUploadCancel(c) \/ RunOutPipeClose(c) \/ RunUnlock(c)

\* the dump process ends: on its own, or killed once ctx is done
ProcEnds(c) ==
    \/ ProcExitOk(c)
    \/ (\E t \in StderrTexts : ProcExitFail(c, t))
    \/ (\E t \in StderrTexts : Kill(c, t))

\* the steps of the chain goroutine outside the upload call
ChainRuns(c) == ChainStart(c) \/ ChainDone(c)

\* the upload call goes on: it reads, sees end-of-stream or sees the cancel
UploadRuns(c) == UploadRead(c) \/ UploadEOF(c) \/ UploadCanceled(c)

\* the steps of the copy goroutine
CopyRuns(c) == CopyRead(c) \/ CopyEOF(c) \/ CopyReadErr(c) \/ GwClose(c) \/ PwClose(c)

\* The run of Spec with the scheduling of the Go runtime: a goroutine that
\* can run does run, the dump process ends, the upload call goes on while
\* it can.  Nothing obliges a failure, an expiry or a further dump byte.
Fairness ==
    \A c \in Callers :
        /\ WF_vars(CoordStep(c))
        /\ WF_vars(ProcEnds(c))
        /\ WF_vars(ChainRuns(c))
        /\ WF_vars(UploadRuns(c))
        /\ WF_vars(CopyRuns(c))

SpecFair == Init /\ [][Next]_vars /\ Fairness

\* ===================================================================
\* Properties
\* ===================================================================
Exited(c) == procState[c] \in {"exitOK", "exitFail"}

\* the call of c is between acquiring pgMutex and returning
InCall(c) == pc[c] \notin {"idle", "done"}

\* the dump process of c is started and not yet waited for
ProcessRunning(c) == procState[c] # "none" /\ pc[c] \in {"launch", "wait"}

\* C1: at most one Backup call is between acquiring the engine lock and
\* returning at any instant, and no two calls have their dump process
\* running (started, not yet waited for) at the same time.
C1_OneCallAtATime ==
    \A c, d \in Callers :
        c # d => /\ ~(InCall(c) /\ InCall(d))
                 /\ ~(ProcessRunning(c) /\ ProcessRunning(d))

\* a call has its process running after another call ran a process and returned
C1_Witness ==
    \E c, d \in Callers :
        /\ c # d
        /\ ProcessRunning(c) /\ procState[c] = "running"
        /\ pc[d] = "done" /\ procState[d] # "none"

\* C2: a Backup call that has returned does not hold the engine lock,
\* whatever path it returned on: the lock is only ever held by a call in
\* progress, so a waiting call is never blocked by a returned one.
C2_LockReleasedOnReturn ==
    \A c \in Callers :
        /\ pc[c] = "done" => mutex # c
        /\ mutex = c => InCall(c)

\* a call returned the timeout error and a later call holds the lock
C2_Witness ==
    \E c, d \in Callers :
        /\ c # d
        /\ pc[c] = "done" /\ Classify(result[c]) = "DeadlineExceeded"
        /\ mutex = d /\ pc[d] = "start"

\* C3: for every run that returns nil, what the upload read up to
\* end-of-stream is the complete compressed encoding of every byte the
\* dump process wrote to its standard output.
C3_NoDumpByteLost ==
    \A c \in Callers :
        (pc[c] = "done" /\ result[c] = Nil /\ uploadRet[c] = "eof")
            => uploaded[c] = Compress(written[c])

\* C4: when the dump process exited successfully, Backup does not return
\* before the upload call has returned, and it returns the upload's result.
C4_ReturnsUploadResult ==
    \A c \in Callers :
        (pc[c] = "done" /\ procState[c] = "exitOK")
            => (uploadRet[c] # "none" /\ result[c] = errVar[c])

\* C5 (as claimed): when a run whose dump process failed returns, its chain
\* goroutine and upload call are no longer running.
C5_FailedRunJoinsChain ==
    \A c \in Callers :
        (pc[c] = "done" /\ procState[c] = "exitFail") => chainPc[c] = "done"

\* C5 (amended): a run whose dump process failed returns without ever
\* waiting for the chain; by the time it returns it has canceled the chain's
\* context.
C5_FailedRunCancelsChain ==
    \A c \in Callers :
        (pc[c] = "done" /\ procState[c] = "exitFail")
            => (~chainWaited[c] /\ uploadCtx[c] = "canceled")

\* a failed run has returned while its upload call is still running
C5_Witness ==
    \E c \in Callers :
        pc[c] = "done" /\ procState[c] = "exitFail" /\ chainPc[c] = "upload"

\* C6 (as claimed): a run whose deadline expired before its dump process
\* exited returns the timeout error, and the chain's context is canceled.
C6_ExpiredBeforeExitIsTimeout ==
    \A c \in Callers :
        (pc[c] = "done" /\ Exited(c) /\ ctxAtExit[c] = "DeadlineExceeded")
            => (Classify(result[c]) = "DeadlineExceeded" /\ uploadCtx[c] = "canceled")

\* C6 (amended): a run whose deadline expired before its dump process
\* exited, the process exiting with a failure, returns the timeout error
\* whatever stderr holds and whatever the chain did, and the chain's context
\* is canceled by the time the run returns.
C6_ExpiredAndFailedIsTimeout ==
    \A c \in Callers :
        (pc[c] = "done" /\ procState[c] = "exitFail" /\ ctxAtExit[c] = "DeadlineExceeded")
            => (result[c] = ErrorfTimeout(ErrCtxDeadline) /\ uploadCtx[c] = "canceled")

\* a killed run with text on stderr and a failed upload returned
C6_Witness ==
    \E c \in Callers :
        /\ pc[c] = "done" /\ waitErr[c] = ErrKilled /\ ctxAtExit[c] = "DeadlineExceeded"
        /\ errBuf[c] # <<>> /\ uploadRet[c] = "failed"

\* C7 (as claimed): the error of a run whose dump process failed before the
\* deadline carries the captured stderr text, trailing line endings removed.
C7_ErrorCarriesStderr ==
    \A c \in Callers :
        (pc[c] = "done" /\ procState[c] = "exitFail" /\ ctxState[c] # "DeadlineExceeded")
            => Contains(result[c], TrimRight(errBuf[c]))

\* s is t without its trailing carriage returns and line feeds
IsTrimmedOf(s, t) ==
    /\ Len(s) <= Len(t)
    /\ SubSeq(t, 1, Len(s)) = s
    /\ \A i \in (Len(s) + 1)..Len(t) : t[i] \in CutSet
    /\ s = <<>> \/ s[Len(s)] \notin CutSet

\* C7 (amended): the error of a run whose dump process failed before the
\* deadline carries the error of cmd.Wait behind "postgres dump: " and not
\* the stderr text; the captured stderr, trailing line endings removed, is
\* the one line written to the error log.
C7_StderrLoggedExitErrorReturned ==
    \A c \in Callers :
        (pc[c] = "done" /\ procState[c] = "exitFail" /\ ctxState[c] # "DeadlineExceeded")
            => /\ result[c] = <<"postgres dump: ">> \o waitErr[c]
               /\ Len(logged[c]) = 1
               /\ IsTrimmedOf(logged[c][1], errBuf[c])

\* a failed run with stderr ending in CR LF returned before the deadline
C7_Witness ==
    \E c \in Callers :
        /\ pc[c] = "done" /\ procState[c] = "exitFail" /\ ctxState[c] = "live"
        /\ errBuf[c] = <<"c", "\n", "r", "\r", "\n">>

\* C8 (as claimed): Backup returns the timeout error only if the deadline
\* had expired at or before the moment the dump process exited.
C8_TimeoutOnlyIfExpiredAtExit ==
    \A c \in Callers :
        (pc[c] = "done" /\ Classify(result[c]) = "DeadlineExceeded")
            => ctxAtExit[c] = "DeadlineExceeded"

\* C8 (amended): Backup returns the timeout error only if the dump process
\* failed and the deadline had expired by the time line 98 reads ctx.Err(); a
\* process failure with the deadline still in the future at the return is
\* DumpFailed, and a caller cancellation is never reported as a timeout.
C8_TimeoutOnlyIfExpiredAtInspection ==
    \A c \in Callers :
        pc[c] = "done" =>
            /\ Classify(result[c]) = "DeadlineExceeded"
                  => (procState[c] = "exitFail" /\ ctxState[c] = "DeadlineExceeded")
            /\ (procState[c] = "exitFail" /\ ctxState[c] = "live")
                  => Classify(result[c]) = "DumpFailed"
            /\ ctxState[c] = "Canceled" => Classify(result[c]) # "DeadlineExceeded"

\* a process failed on its own before the deadline and the run returned the
\* timeout error
C8_Witness ==
    \E c \in Callers :
        /\ pc[c] = "done" /\ Classify(result[c]) = "DeadlineExceeded"
        /\ waitErr[c] = ErrExitStatus /\ ctxAtExit[c] = "live"

\* C9: a run returns one result, fixed once; when the dump process failed
\* it is the process-level error (DumpFailed or DeadlineExceeded) built
\* from cmd.Wait's error or ctx.Err(), never the chain's error.
C9_ProcessErrorWins ==
    /\ [](\A c \in Callers :
            /\ pc[c] = "done" => result[c] # NoResult
            /\ (procState[c] = "exitFail" /\ result[c] # NoResult)
                  => /\ Classify(result[c]) \in {"DumpFailed", "DeadlineExceeded"}
                     /\ result[c] \in {ErrorfDump(waitErr[c]), ErrorfTimeout(ErrCtxDeadline)}
                     /\ ~Contains(result[c], ErrUpload)
                     /\ ~Contains(result[c], ErrCtxCanceled))
    /\ [][\A c \in Callers : result[c] # NoResult => result'[c] = result[c]]_vars

\* a failed run returned after its chain had recorded an upload error
C9_Witness ==
    \E c \in Callers :
        /\ pc[c] = "done" /\ procState[c] = "exitFail"
        /\ uploadRet[c] = "failed" /\ errVar[c] = ErrUpload

StartErrors == {ErrPipe, ErrExec, ErrCtxCanceled, ErrCtxDeadline}

\* C10: a run whose dump process could not be started returns the start
\* error itself; its chain is never launched, the upload is never called, no
\* stdout pipe is left open and the lock is released.
C10_StartFailure ==
    \A c \in Callers :
        (pc[c] = "done" /\ procState[c] = "none")
            => /\ result[c] \in StartErrors
               /\ (result[c] = ErrPipe) = (outPipe[c] = "none")
               /\ chainPc[c] = "none" /\ copyPc[c] = "none"
               /\ uploadArgs[c] = <<>> /\ uploadRet[c] = "none"
               /\ outPipe[c] # "open"
               /\ mutex # c

\* cmd.Start failed and the run returned
C10_Witness ==
    \E c \in Callers :
        pc[c] = "done" /\ procState[c] = "none" /\ outPipe[c] = "closed"
            /\ result[c] = ErrExec

\* C11 (as claimed): a run never writes connection parameters into the
\* process-wide environment: no step of a run changes it.
C11_EnvironmentUntouched == [][env' = env]_vars

\* the parts of a path joined with "/"
RECURSIVE JoinSlash(_)
JoinSlash(parts) ==
    IF Len(parts) = 1 THEN parts[1]
    ELSE parts[1] \o "/" \o JoinSlash(Tail(parts))

\* C12: the upload is called with the namespace, the instance name and the
\* filename joined with "/" as object path, and with size hint -1.
C12_ObjectPathAndSize ==
    \A c \in Callers :
        uploadArgs[c] # <<>> =>
            /\ Len(uploadArgs[c]) = 2
            /\ uploadArgs[c][1] = JoinSlash(<<Binding(c).label, Binding(c).name, Filename(c)>>)
            /\ uploadArgs[c][2] = -1

\* the upload of caller 1 was called and has returned
C12_Witness ==
    /\ uploadArgs[1] = <<"postgres/inst1/backup1.gz", -1>>
    /\ uploadRet[1] = "eof"

\* the arguments of a command after its name
Args(cmd) == {cmd[i] : i \in 2..Len(cmd)}

\* C13 (as claimed): pg_dump with the database name when the binding has
\* one, pg_dumpall otherwise; in both cases the command asks for verbose
\* output, for clean output and for no password prompt.
C13_CommandVerbose ==
    \A c \in Callers :
        command[c] # <<>> =>
            /\ command[c][1] = (IF Binding(c).database # "" THEN "pg_dump" ELSE "pg_dumpall")
            /\ Binding(c).database # "" => command[c][2] = Binding(c).database
            /\ {"-c", "--no-password"} \subseteq Args(command[c])
            /\ Args(command[c]) \cap {"-v", "--verbose"} # {}

\* C13 (amended): pg_dump with the database name and -C when the binding has
\* a database name, pg_dumpall otherwise; in both cases -c and --no-password
\* and nothing else; no verbose flag is passed.
C13_CommandSelection ==
    \A c \in Callers :
        command[c] # <<>> =>
            /\ command[c][1] = (IF Binding(c).database # "" THEN "pg_dump" ELSE "pg_dumpall")
            /\ Binding(c).database # "" => command[c][2] = Binding(c).database
            /\ Args(command[c]) =
                   {"-c", "--no-password"} \cup
                   (IF Binding(c).database # "" THEN {Binding(c).database, "-C"} ELSE {})
            /\ Args(command[c]) \cap {"-v", "--verbose"} = {}

\* the command of a caller whose binding names a database was started
C13_Witness ==
    \E c \in Callers :
        /\ Binding(c).database # ""
        /\ command[c] # <<>> /\ procState[c] = "running"

\* the Coordinator has left cmd.Wait and has not returned yet
AfterProcessRunning(c) == pc[c] \in {"inspect", "chainwait", "return"}

\* C14 (as claimed): the chain's context is canceled when cmd.Wait returns,
\* before the Coordinator waits for the chain.
C14_CanceledOnLeavingWait ==
    \A c \in Callers : AfterProcessRunning(c) => uploadCtx[c] = "canceled"

\* C14 (amended): the chain's context is canceled by the deferred
\* uploadCancel when Backup returns, in all three cases; it is still live
\* when cmd.Wait has returned and while the Coordinator waits for the chain.
C14_CanceledOnReturn ==
    \A c \in Callers :
        /\ (pc[c] = "wait" \/ AfterProcessRunning(c)) => uploadCtx[c] = "live"
        /\ (pc[c] = "done" /\ procState[c] # "none") => uploadCtx[c] = "canceled"

\* a successful run has waited for its chain and returned
C14_Witness ==
    \E c \in Callers :
        /\ pc[c] = "done" /\ procState[c] = "exitOK"
        /\ chainWaited[c] /\ uploadRet[c] = "eof" /\ uploadCtx[c] = "canceled"

\* C15: in every run that launched the chain the copy goroutine eventually
\* finishes, having closed the encoder and the write end of the pipe.
C15_CopyTaskFinishes ==
    \A c \in Callers :
        (copyPc[c] # "none") ~> (copyPc[c] = "done" /\ pwClosed[c])

\* C16: the write end of the pipe is closed only after the encoder was
\* closed and its trailer was read; an upload that saw end-of-stream has
\* read a stream that ends with the trailer of everything copied.
C16_EncoderClosedBeforePipe ==
    \A c \in Callers :
        /\ pwClosed[c] => (copyPc[c] = "done" /\ gzStarted[c])
        /\ uploadRet[c] = "eof" =>
              /\ pwClosed[c]
              /\ uploaded[c] # <<>>
              /\ uploaded[c][Len(uploaded[c])] = GzTrailerBase + Len(copied[c])
              /\ uploaded[c] = Compress(copied[c])

\* an upload saw end-of-stream after dump bytes went through the encoder
C16_Witness ==
    \E c \in Callers : uploadRet[c] = "eof" /\ Len(copied[c]) = MaxDump

\* C17: an upload in progress when the caller's deadline has expired has its
\* context canceled, also while the Coordinator waits for the chain after a
\* successful dump.
C17_UploadBoundedByDeadline ==
    \A c \in Callers :
        (ctxState[c] = "DeadlineExceeded" /\ pc[c] = "chainwait" /\ chainPc[c] = "upload")
            => uploadCtx[c] = "canceled"

\* C18: the Coordinator reads err (line 107) only after the chain goroutine
\* has finished, and nobody closes the stdout pipe while its reader, the
\* copy goroutine, is still reading it.
C18_NoUnorderedAccess ==
    \A c \in Callers :
        /\ pc[c] = "return" => chainPc[c] = "done"
        /\ outPipe[c] = "closed" => copyPc[c] # "copying"

\* C19: a run that has returned has left no stdout pipe open, and its dump
\* process, if it was started, has exited and was collected by cmd.Wait.
C19_PipeClosedProcessReaped ==
    \A c \in Callers :
        pc[c] = "done" =>
            /\ outPipe[c] # "open"
            /\ (command[c] # <<>> /\ result[c] # ErrPipe) => outPipe[c] = "closed"
            /\ procState[c] # "running"
            /\ procState[c] # "none" => (Exited(c) /\ outPipe[c] = "closed")

\* a run whose process was killed at the deadline has returned
C19_Witness ==
    \E c \in Callers :
        pc[c] = "done" /\ waitErr[c] = ErrKilled /\ outPipe[c] = "closed"

\* the connection parameters of caller c as environment
ParamsOf(c) ==
    [PGUSER |-> Binding(c).username, PGPASSWORD |-> Binding(c).password,
     PGHOST |-> Binding(c).host, PGPORT |-> Binding(c).port]

\* C20: the dump process of a call inherits the connection parameters that
\* call wrote: between its os.Setenv and its cmd.Start the environment holds
\* its parameters, whatever the other calls do.
C20_ProcessInheritsOwnParams ==
    \A c \in Callers :
        /\ pc[c] \in {"pipe", "start"} => env = ParamsOf(c)
        /\ procState[c] # "none" => procEnv[c] = ParamsOf(c)

\* two calls have started their processes, each with its own parameters
C20_Witness ==
    \E c, d \in Callers :
        /\ procState[c] # "none" /\ procState[d] # "none"
        /\ procEnv[c] # procEnv[d]

====
